---- MODULE Spec2Model ----
(***************************************************************************)
(* Model of the two notebooks of duspviz-mit/spatial-data-science:         *)
(*   - the batch isochrone cell of the routing notebook                    *)
(*     (src/unnamed/part_000, lines 478-510), and                          *)
(*   - the faculty scraper cell of scraping_websites.ipynb                 *)
(*     (src/python-scraping/scraping_websites.ipynb, lines 435-492).       *)
(* A behaviour is one run of one of the two cells; `run` says which.       *)
(* Python values are tagged records [t, v]; texts are sequences of         *)
(* strings, and a name is a sequence of one-character strings.             *)
(***************************************************************************)
EXTENDS Integers, Sequences, FiniteSets, TLC

VARIABLES run, pc, trace,
          infile, outcsv, field_names, lineNo, line, request, received,
          geojson, dotenv, environ, osrkey, ors, people, f, idx, ns

vars == <<run, pc, trace, infile, outcsv, field_names, lineNo, line, request,
          received, geojson, dotenv, environ, osrkey, ors, people, f, idx, ns>>

\* received is history: the responses the routing service has returned so
\* far, each with the number of the line it answers.  geojson is the file
\* the single-request cells dump their response to.
\* The API key: the .env file, the process environment, the name osrkey
\* and the client made with it.
keyVars == <<dotenv, environ, osrkey, ors>>
isoVars == <<infile, outcsv, field_names, lineNo, line, request, received,
             geojson, keyVars>>
scrVars == <<people, f, idx, ns>>

(***************************************************************************)
(* Bounds.                                                                 *)
(***************************************************************************)
MaxLines == 3
MaxPeople == 3
MaxDetailPeople == 2
MaxNameLen == 3
MaxCoords == 2
MaxPairNameLen == 2

(***************************************************************************)
(* Python values.                                                          *)
(***************************************************************************)
PyNone == [t |-> "NoneType", v |-> <<>>]
Unbound == [t |-> "unbound", v |-> <<>>]
Str(s) == [t |-> "str", v |-> s]
Tag(s) == [t |-> "Tag", v |-> s]
Exc(s) == [t |-> "Exception", v |-> s]

\* Truth value of a Python object in `if x:`: None and '' are false, a Tag
\* and a non-empty string are true.
Truthy(x) == x.t = "Tag" \/ x.t = "Exception" \/ (x.t = "str" /\ x.v # <<>>)

\* Tag.get_text(): the text of an element, as a str.
get_text(tag) == Str(tag.v)

\* An event of the run: a network call, a sleep, a write, a print, a raise.
Event(op, rec, arg, res) == [op |-> op, rec |-> rec, arg |-> arg, res |-> res]

\* Positions of the trace holding an event of kind op.
EventsOf(op) == {k \in DOMAIN trace : trace[k].op = op}

\* A file on disk: whether it exists, and its lines.  A line of an output
\* file carries, next to its cells, what wrote it: the header or the row of
\* record number rec of this run (rec = 0 for the header, -1 for a line left
\* by an earlier run).
NoFile == [exists |-> FALSE, lines |-> <<>>]
File(ls) == [exists |-> TRUE, lines |-> ls]
OutLine(kind, rec, cells) == [kind |-> kind, rec |-> rec, cells |-> cells]

\* A faulty variant: the file is opened in append mode and keeps what it held.
OpenW_Append(file) == File(file.lines)

\* open(path, 'w'): creates the file or truncates it.
OpenW(file) == File(<<>>)

\* str() of a value as the csv module writes it: None becomes ''.
CsvCell(x) == IF x.t = "NoneType" THEN <<>> ELSE x.v

\* csv.DictWriter.writeheader(): one line holding the field names.
writeheader(file, names) ==
  File(Append(file.lines, OutLine("header", 0, [i \in DOMAIN names |-> <<names[i]>>])))

\* csv.DictWriter.writerow(rowdict): the cells in the order of the field
\* names; a field the dict lacks gets restval ''.
DictRow(names, d) ==
  [i \in DOMAIN names |->
     IF names[i] \in DOMAIN d THEN CsvCell(d[names[i]]) ELSE <<>>]

\* A faulty variant: the new row is put right after the header, before older rows.
writerow_AfterHeader(file, names, rec, d) ==
  File(<<Head(file.lines), OutLine("row", rec, DictRow(names, d))>>
       \o Tail(file.lines))

\* A faulty variant: the file is rewritten for each row, keeping the header and the
\* newest row only.
writerow_KeepsNewest(file, names, rec, d) ==
  File(<<Head(file.lines), OutLine("row", rec, DictRow(names, d))>>)

writerow(file, names, rec, d) ==
  File(Append(file.lines, OutLine("row", rec, DictRow(names, d))))

\* DictWriter raises ValueError when the dict has a key that is no field.
ExtraKeys(names, d) == DOMAIN d \ {names[i] : i \in DOMAIN names}

\* The lines of an output file that are data rows.
DataRows(file) == SelectSeq(file.lines, LAMBDA l : l.kind = "row")

(***************************************************************************)
(* The API key cells of the routing notebook.                              *)
(***************************************************************************)

\* Keys a user may have.
Keys == {<<"k1">>, <<"k2">>}

\* The line the tutorial tells the user to put in .env, and the name the
\* code reads.
TutorialName == "OSRKEY"
GetenvName == "ORSKEY"

\* Variable assignments: a function from names to values.
NoVars == [n \in {} |-> <<>>]
OneVar(name, value) == [n \in {name} |-> value]

\* A .env file of one line NAME=value, or none.
EnvFiles ==
  {[exists |-> FALSE, vars |-> NoVars]} \cup
  {[exists |-> TRUE, vars |-> OneVar(name, k)] :
     name \in {TutorialName, GetenvName}, k \in Keys}

\* load_dotenv(): the variables of .env are added to the environment; a
\* variable the environment already holds keeps its value.
load_dotenv(env, file) ==
  [n \in DOMAIN env \cup DOMAIN file.vars |->
     IF n \in DOMAIN env THEN env[n] ELSE file.vars[n]]

\* os.getenv(name): the value, or None when the variable is not set.
getenv(env, name) == IF name \in DOMAIN env THEN Str(env[name]) ELSE PyNone

\* load_dotenv()
LoadDotenv ==
  /\ run \in {"route", "isochrone"} /\ pc = "dotenv"
  /\ environ' = load_dotenv(environ, dotenv)
  /\ pc' = "getenv"
  /\ UNCHANGED <<run, trace, infile, outcsv, field_names, lineNo, line, request,
                 received, geojson, dotenv, osrkey, ors, scrVars>>

\* osrkey = os.getenv('ORSKEY')
GetKey ==
  /\ run \in {"route", "isochrone"} /\ pc = "getenv"
  /\ osrkey' = getenv(environ, GetenvName)
  /\ pc' = "client"
  /\ UNCHANGED <<run, trace, infile, outcsv, field_names, lineNo, line, request,
                 received, geojson, dotenv, environ, ors, scrVars>>

\* ors = client.Client(key=osrkey): the client holds the key it was given.
MakeClient ==
  /\ run \in {"route", "isochrone"} /\ pc = "client"
  /\ ors' = [key |-> osrkey]
  /\ pc' = "start"
  /\ UNCHANGED <<run, trace, infile, outcsv, field_names, lineNo, line, request,
                 received, geojson, dotenv, environ, osrkey, scrVars>>

\* Before the key cells run: any .env file, and a process environment that
\* holds no key or already holds one under the name the code reads.
KeyInit ==
  /\ dotenv \in EnvFiles
  /\ environ \in {NoVars, OneVar(GetenvName, <<"k2">>)}
  /\ osrkey = Unbound
  /\ ors = [key |-> Unbound]

\* The key cells are not part of the run.
KeyIdle ==
  /\ dotenv = [exists |-> FALSE, vars |-> NoVars]
  /\ environ = NoVars
  /\ osrkey = Unbound
  /\ ors = [key |-> Unbound]

(***************************************************************************)
(* Batch isochrone cell: inputs.                                           *)
(***************************************************************************)
Headers == {<<"STATION", "X", "Y">>, <<"X", "Y", "STATION">>}

Stations ==
  { [STATION |-> <<"Harvard">>, X |-> <<"-71.1">>, Y |-> <<"42.3">>],
    [STATION |-> <<"Davis">>,   X |-> <<"-71.2">>, Y |-> <<"42.4">>] }

\* A line of the input CSV: the cells of a station in header order; a long
\* line has one cell more than the header.
CsvLine(h, st, long) ==
  [i \in DOMAIN h |-> st[h[i]]] \o (IF long THEN <<<<"extra">>>> ELSE <<>>)

InLines(h) ==
  {CsvLine(h, st, FALSE) : st \in Stations} \cup
  {CsvLine(h, [STATION |-> <<"Alewife">>, X |-> <<"-71.3">>, Y |-> <<"42.5">>], TRUE)}

\* An output file left by an earlier run.
OldOutput ==
  File(<<OutLine("header", -1, <<<<"STATION">>, <<"geom">>>>),
         OutLine("row", -1, <<<<"Old">>, <<"POLYGON", "9 9">>>>)>>)

\* csv.DictReader: the cells of a line keyed by the field names; a short line
\* is padded with None, and the cells beyond the header go under restkey None.
DictReaderRow(h, cells) ==
  LET base == [k \in {h[i] : i \in DOMAIN h} |->
                 LET i == CHOOSE j \in DOMAIN h : h[j] = k
                 IN IF i <= Len(cells) THEN Str(cells[i]) ELSE PyNone]
  IN IF Len(cells) > Len(h)
       THEN base @@ [None |-> Str(cells[Len(h) + 1])]
       ELSE base

\* Geometries the service may return.
Ring1 == <<<<0, 0>>, <<1, 0>>, <<0, 1>>, <<0, 0>>>>
Ring2 == <<<<2, 2>>, <<3, 2>>, <<2, 3>>, <<2, 2>>>>
Polygon(ring) == [type |-> "Polygon", coordinates |-> <<ring>>]
Feature(g) == [geometry |-> g]

\* Feature collections an isochrone request may return: one polygon, two
\* features, no feature, and a geometry of a type shapely does not know.
Responses ==
  { [features |-> <<Feature(Polygon(Ring1))>>],
    [features |-> <<Feature(Polygon(Ring2)), Feature(Polygon(Ring1))>>],
    [features |-> <<>>],
    [features |-> <<Feature([type |-> "Unknown", coordinates |-> <<Ring1>>])>>] }

NoResponse == [features |-> <<>>]

\* shape(geometry) raises for a geometry type it does not know.
ShapeOk(g) == g.type = "Polygon"

\* The points "x y" of a ring, in order, between parentheses.
RingText(ring) ==
  <<"(">> \o
  [i \in DOMAIN ring |-> ToString(ring[i][1]) \o " " \o ToString(ring[i][2])]
  \o <<")">>

RECURSIVE RingsText(_)
RingsText(rings) ==
  IF rings = <<>> THEN <<>> ELSE RingText(Head(rings)) \o RingsText(Tail(rings))

\* shape(geometry).wkt: the tag POLYGON and the rings of the polygon.
wkt(g) == <<"POLYGON">> \o RingsText(g.coordinates)

\* A faulty variant: the geometry is taken from the last feature of the response.
WithGeom_LastFeature(l, r) ==
  [k \in DOMAIN l \cup {"geom"} |->
     IF k = "geom" THEN Str(wkt(r.features[Len(r.features)].geometry)) ELSE l[k]]

\* line['geom'] = shape(request['features'][0]['geometry']).wkt
WithGeom(l, r) ==
  [k \in DOMAIN l \cup {"geom"} |->
     IF k = "geom" THEN Str(wkt(r.features[1].geometry)) ELSE l[k]]

\* The request parameters built from a line (only the locations vary).
params(l) == l["X"].v \o l["Y"].v

(***************************************************************************)
(* Batch isochrone cell: steps.                                            *)
(***************************************************************************)

\* A faulty variant: the FileNotFoundError handler says nothing.
OpenInfile_Silent ==
  /\ run = "iso" /\ pc = "start"
  /\ IF infile.exists
       THEN /\ pc' = "open_out"
       ELSE /\ pc' = "done"
  /\ trace' = trace
  /\ UNCHANGED <<run, isoVars, scrVars>>

\* A faulty variant: the output file is opened before the input file.
OpenInfile_OutputFirst ==
  /\ run = "iso" /\ pc = "start"
  /\ outcsv' = OpenW(outcsv)
  /\ IF infile.exists
       THEN /\ pc' = "open_out"
            /\ trace' = trace
       ELSE /\ pc' = "done"
            /\ trace' = Append(trace,
                 Event("print", 0, <<"camberville_t.csv does not exist">>, "ok"))
  /\ UNCHANGED <<run, infile, field_names, lineNo, line, request, received,
                 geojson, keyVars, scrVars>>

\* with open(mbta_locs, 'r') as infile, and the FileNotFoundError handler.
OpenInfile ==
  /\ run = "iso" /\ pc = "start"
  /\ IF infile.exists
       THEN /\ pc' = "open_out"
            /\ trace' = trace
       ELSE /\ pc' = "done"
            /\ trace' = Append(trace,
                 Event("print", 0, <<"camberville_t.csv does not exist">>, "ok"))
  /\ UNCHANGED <<run, isoVars, scrVars>>

\* with open(out_file, 'w') as outcsv; the trace tells whether the file
\* was there before.
OpenOutcsv ==
  /\ run = "iso" /\ pc = "open_out"
  /\ outcsv' = OpenW(outcsv)
  /\ trace' = Append(trace, Event("open", 0, <<"w">>,
                                  IF outcsv.exists THEN "truncated" ELSE "created"))
  /\ pc' = "header"
  /\ UNCHANGED <<run, infile, field_names, lineNo, line, request, received, geojson,
               keyVars, scrVars>>

\* A faulty variant: the geom column is put before the input columns.
IsoWriteHeader_GeomFirst ==
  /\ run = "iso" /\ pc = "header"
  /\ field_names' = <<"geom">> \o infile.header
  /\ outcsv' = writeheader(outcsv, field_names')
  /\ trace' = Append(trace, Event("write", 0, <<"header">>, "ok"))
  /\ pc' = "loop"
  /\ UNCHANGED <<run, infile, lineNo, line, request, received, geojson,
                 keyVars, scrVars>>

\* reader.fieldnames + ['geom'], DictWriter, writer.writeheader().
IsoWriteHeader ==
  /\ run = "iso" /\ pc = "header"
  /\ field_names' = Append(infile.header, "geom")
  /\ outcsv' = writeheader(outcsv, field_names')
  /\ trace' = Append(trace, Event("write", 0, <<"header">>, "ok"))
  /\ pc' = "loop"
  /\ UNCHANGED <<run, infile, lineNo, line, request, received, geojson,
               keyVars, scrVars>>

\* for line in reader: the next line as a dict, or the end of the loop.
IsoNextLine ==
  /\ run = "iso" /\ pc = "loop"
  /\ IF lineNo < Len(infile.lines)
       THEN /\ lineNo' = lineNo + 1
            /\ line' = DictReaderRow(infile.header, infile.lines[lineNo + 1])
            /\ pc' = "request"
       ELSE /\ pc' = "done"
            /\ UNCHANGED <<lineNo, line>>
  /\ UNCHANGED <<run, trace, infile, outcsv, field_names, request, received, geojson,
               keyVars, scrVars>>

\* A faulty variant: the handler covers the request alone, and the statements after
\* it (sleep, writerow) run for a failed request too.
IsoRequest_FallThrough ==
  /\ run = "iso" /\ pc = "request"
  /\ \/ \E r \in Responses :
          /\ request' = r
          /\ received' = Append(received, [rec |-> lineNo, response |-> r])
          /\ trace' = Append(trace, Event("isochrones", lineNo, params(line), "ok"))
          /\ pc' = "convert"
     \/ /\ trace' = trace \o
             <<Event("isochrones", lineNo, params(line), "raise"),
               Event("print", lineNo, <<"ApiError">>, "ok")>>
        /\ pc' = "sleep"
        /\ UNCHANGED <<request, received>>
  /\ UNCHANGED <<run, infile, outcsv, field_names, lineNo, line, geojson, keyVars, scrVars>>

\* A faulty variant: the handler is outside the loop, and a failed request ends it.
IsoRequest_EndsLoop ==
  /\ run = "iso" /\ pc = "request"
  /\ \/ \E r \in Responses :
          /\ request' = r
          /\ received' = Append(received, [rec |-> lineNo, response |-> r])
          /\ trace' = Append(trace, Event("isochrones", lineNo, params(line), "ok"))
          /\ pc' = "convert"
     \/ /\ trace' = trace \o
             <<Event("isochrones", lineNo, params(line), "raise"),
               Event("print", lineNo, <<"ApiError">>, "ok")>>
        /\ pc' = "done"
        /\ UNCHANGED <<request, received>>
  /\ UNCHANGED <<run, infile, outcsv, field_names, lineNo, line, geojson, keyVars, scrVars>>

\* A faulty variant: a failed request is sent again for the same line.
IsoRequest_Retries ==
  /\ run = "iso" /\ pc = "request"
  /\ \/ \E r \in Responses :
          /\ request' = r
          /\ received' = Append(received, [rec |-> lineNo, response |-> r])
          /\ trace' = Append(trace, Event("isochrones", lineNo, params(line), "ok"))
          /\ pc' = "convert"
     \/ /\ trace' = trace \o
             <<Event("isochrones", lineNo, params(line), "raise"),
               Event("print", lineNo, <<"ApiError">>, "ok")>>
        /\ pc' = "request"
        /\ UNCHANGED <<request, received>>
  /\ UNCHANGED <<run, infile, outcsv, field_names, lineNo, line, geojson, keyVars, scrVars>>

\* request = ors.isochrones(**params): returns a feature collection or
\* raises; the handler prints the error and the loop goes on.
IsoRequest ==
  /\ run = "iso" /\ pc = "request"
  /\ \/ \E r \in Responses :
          /\ request' = r
          /\ received' = Append(received, [rec |-> lineNo, response |-> r])
          /\ trace' = Append(trace, Event("isochrones", lineNo, params(line), "ok"))
          /\ pc' = "convert"
     \/ /\ trace' = trace \o
             <<Event("isochrones", lineNo, params(line), "raise"),
               Event("print", lineNo, <<"ApiError">>, "ok")>>
        /\ pc' = "loop"
        /\ UNCHANGED <<request, received>>
  /\ UNCHANGED <<run, infile, outcsv, field_names, lineNo, line, geojson, keyVars, scrVars>>

\* A faulty variant: the handler covers the request alone, and a response that cannot
\* be converted ends the cell.
IsoConvert_Uncaught ==
  /\ run = "iso" /\ pc = "convert"
  /\ IF request.features = <<>>
       THEN /\ trace' = Append(trace,
                 Event("raise", lineNo, <<"IndexError", "geom">>, "uncaught"))
            /\ pc' = "aborted"
            /\ UNCHANGED line
       ELSE IF ~ShapeOk(request.features[1].geometry)
       THEN /\ trace' = Append(trace,
                 Event("raise", lineNo, <<"ValueError", "geom">>, "uncaught"))
            /\ pc' = "aborted"
            /\ UNCHANGED line
       ELSE /\ line' = WithGeom(line, request)
            /\ pc' = "sleep"
            /\ trace' = trace
  /\ UNCHANGED <<run, infile, outcsv, field_names, lineNo, request, received, geojson,
               keyVars, scrVars>>

\* line['geom'] = shape(request['features'][0]['geometry']).wkt
IsoConvert ==
  /\ run = "iso" /\ pc = "convert"
  /\ IF request.features = <<>>
       THEN /\ trace' = trace \o
                 <<Event("raise", lineNo, <<"IndexError", "geom">>, "caught"),
                   Event("print", lineNo, <<"IndexError">>, "ok")>>
            /\ pc' = "loop"
            /\ UNCHANGED line
       ELSE IF ~ShapeOk(request.features[1].geometry)
       THEN /\ trace' = trace \o
                 <<Event("raise", lineNo, <<"ValueError", "geom">>, "caught"),
                   Event("print", lineNo, <<"ValueError">>, "ok")>>
            /\ pc' = "loop"
            /\ UNCHANGED line
       ELSE /\ line' = WithGeom(line, request)
            /\ pc' = "sleep"
            /\ trace' = trace
  /\ UNCHANGED <<run, infile, outcsv, field_names, lineNo, request, received, geojson,
               keyVars, scrVars>>

\* sleep(2)
IsoSleep ==
  /\ run = "iso" /\ pc = "sleep"
  /\ trace' = Append(trace, Event("sleep", lineNo, <<"2">>, "ok"))
  /\ pc' = "write"
  /\ UNCHANGED <<run, isoVars, scrVars>>

\* writer.writerow(line); a ValueError goes to the same handler.
IsoWriteRow ==
  /\ run = "iso" /\ pc = "write"
  /\ IF ExtraKeys(field_names, line) # {}
       THEN /\ trace' = trace \o
                 <<Event("raise", lineNo, <<"ValueError", "writerow">>, "caught"),
                   Event("print", lineNo, <<"ValueError">>, "ok")>>
            /\ UNCHANGED outcsv
       ELSE /\ outcsv' = writerow(outcsv, field_names, lineNo, line)
            /\ trace' = Append(trace, Event("write", lineNo, <<"row">>, "ok"))
  /\ pc' = "loop"
  /\ UNCHANGED <<run, infile, field_names, lineNo, line, request, received, geojson,
               keyVars, scrVars>>

(***************************************************************************)
(* Faculty scraper cell: inputs.                                           *)
(***************************************************************************)
Name1 == <<"A", "l", " ", "Y", "i">>
Name2 == <<"K", ".", " ", "P", "o">>
Names == {Name1, Name2}

\* A record block of the listing page (div.row-people), by the elements the
\* cell looks for in it: a.username (its text and its href attribute), img,
\* and the three position/affiliation divs.  PyNone: the element is absent.
Block(nm, hasImg) ==
  [username    |-> Tag(nm),
   href        |-> Str(<<"/faculty/">> \o nm),
   img         |-> IF hasImg THEN Tag(<<"http://dusp.mit.edu/pictures/">> \o nm) ELSE PyNone,
   pos_1       |-> Tag(IF nm = Name1 THEN <<"Lecturer">> ELSE <<"Professor">>),
   pos_2       |-> Tag(IF nm = Name1 THEN <<>> ELSE <<"Department Head">>),
   other_affil |-> Tag(<<>>)]

GoodBlocks == {Block(nm, hasImg) : nm \in Names, hasImg \in BOOLEAN}

\* Blocks lacking one of the elements the cell dereferences.
BlockFields == {"username", "href", "pos_1", "pos_2", "other_affil"}
Without(b, fld) == [b EXCEPT ![fld] = PyNone]
MalformedBlocks == {Without(Block(Name2, TRUE), fld) : fld \in BlockFields}

Blocks == GoodBlocks \cup MalformedBlocks

\* A detail page, by the sections the cell looks for; interests_value is the
\* element two siblings after the interests label.
Page(bio, office, email, label, value) ==
  [bio |-> bio, office |-> office, email |-> email,
   interests |-> label, interests_value |-> value]

DetailPages ==
  { Page(Tag(<<"Bio text">>), Tag(<<"9-520">>), Tag(<<"x@mit.edu">>),
         Tag(<<"Areas of Interest">>), Tag(<<"Housing">>)),
    Page(PyNone, PyNone, PyNone, PyNone, PyNone),
    Page(Tag(<<"Other bio">>), PyNone, Tag(<<"y@mit.edu">>), PyNone, PyNone),
    Page(PyNone, Tag(<<"9-426">>), PyNone,
         Tag(<<"Areas of Interest">>), Tag(<<"Transit">>)),
    Page(PyNone, PyNone, PyNone, Tag(<<"Areas of Interest">>), PyNone) }

\* Every detail page by presence of its sections: bio, office and email
\* present or absent, and the interests label absent, present with its
\* value, or present without the value element.
AllDetailPages ==
  { Page(bio, office, email, iv[1], iv[2]) :
      bio \in {PyNone, Tag(<<"Bio text">>)},
      office \in {PyNone, Tag(<<"9-520">>)},
      email \in {PyNone, Tag(<<"x@mit.edu">>)},
      iv \in { <<PyNone, PyNone>>,
               <<Tag(<<"Areas of Interest">>), Tag(<<"Housing">>)>>,
               <<Tag(<<"Areas of Interest">>), PyNone>> } }

\* A faculty.csv left by an earlier run.
OldFaculty ==
  File(<<OutLine("header", -1, <<<<"name">>, <<"href">>>>),
         OutLine("row", -1, <<<<"Old">>, <<"/faculty/old">>>>)>>)

\* field_names of the scraper cell.
scr_field_names ==
  <<"name", "href", "pos_1", "pos_2", "other_affil",
    "bio", "office", "email", "interests", "image_file">>

\* The names of the kernel the cell assigns; none is bound before it runs.
NsNames == {"name", "href", "image_url", "image_file", "pos_1", "pos_2",
            "other_affil", "person_soup", "bio", "office", "email", "interests"}
FreshNs == [n \in NsNames |-> Unbound]

\* str.lower() on one character.
UpperChars == <<"A", "B", "C", "D", "E", "F", "G", "H", "I", "J", "K", "L", "M",
                "N", "O", "P", "Q", "R", "S", "T", "U", "V", "W", "X", "Y", "Z">>
LowerChars == <<"a", "b", "c", "d", "e", "f", "g", "h", "i", "j", "k", "l", "m",
                "n", "o", "p", "q", "r", "s", "t", "u", "v", "w", "x", "y", "z">>
lower(c) ==
  IF \E i \in DOMAIN UpperChars : UpperChars[i] = c
    THEN LowerChars[CHOOSE i \in DOMAIN UpperChars : UpperChars[i] = c]
    ELSE c

\* A faulty variant: periods are kept in the filename.
ImageFile_KeepsPeriods(nm) ==
  LET under == [i \in DOMAIN nm |-> IF nm[i] = " " THEN "_" ELSE nm[i]]
      low   == [i \in DOMAIN under |-> lower(under[i])]
  IN low \o <<".jpg">>

\* name.replace(' ', '_').lower().replace('.', '') + '.jpg'
ImageFile(nm) ==
  LET under == [i \in DOMAIN nm |-> IF nm[i] = " " THEN "_" ELSE nm[i]]
      low   == [i \in DOMAIN under |-> lower(under[i])]
      strip == SelectSeq(low, LAMBDA c : c # ".")
  IN strip \o <<".jpg">>

\* The row dict built at the end of the loop body.
RowDict(n) ==
  [k \in {scr_field_names[i] : i \in DOMAIN scr_field_names} |-> n[k]]

(***************************************************************************)
(* Faculty scraper cell: steps.                                            *)
(***************************************************************************)

\* An exception nothing catches: it leaves the with block (the file is
\* closed with what was written) and ends the cell.
Uncaught(tr, exc, stmt) ==
  Append(tr, Event("raise", idx, <<exc, stmt>>, "uncaught"))

\* A faulty variant: the filename is prefixed with the position of the block.
NameNs_Numbered(n, person) ==
  LET nm == get_text(person.username)
  IN [n EXCEPT
        !.name = nm,
        !.href = Str(<<"http://dusp.mit.edu">> \o person.href.v),
        !.image_url = IF Truthy(person.img) THEN Str(person.img.v) ELSE PyNone,
        !.image_file = IF Truthy(person.img)
                         THEN Str(<<ToString(idx)>> \o ImageFile(nm.v)) ELSE @]

\* Lines 448-456: the names assigned from the a.username and img elements;
\* image_file is assigned only when the block has an img.
NameNs(n, person) ==
  LET nm == get_text(person.username)
  IN [n EXCEPT
        !.name = nm,
        !.href = Str(<<"http://dusp.mit.edu">> \o person.href.v),
        !.image_url = IF Truthy(person.img) THEN Str(person.img.v) ELSE PyNone,
        !.image_file = IF Truthy(person.img) THEN Str(ImageFile(nm.v)) ELSE @]

\* Lines 462-464.
PositionsNs(n, person) ==
  [n EXCEPT !.pos_1 = get_text(person.pos_1),
            !.pos_2 = get_text(person.pos_2),
            !.other_affil = get_text(person.other_affil)]

\* A section of the detail page: its text when found, else None.
Section(el) == IF Truthy(el) THEN get_text(el) ELSE el

\* A faulty variant: the email is looked up only on a page that has an office.
DetailNs_EmailNeedsOffice(n, page) ==
  [n EXCEPT !.person_soup = page,
            !.bio = Section(page.bio),
            !.office = Section(page.office),
            !.email = IF Truthy(page.office) THEN Section(page.email) ELSE PyNone,
            !.interests = IF Truthy(page.interests)
                            THEN get_text(page.interests_value)
                            ELSE page.interests]

\* Lines 466-478: the page and its four optional sections.
DetailNs(n, page) ==
  [n EXCEPT !.person_soup = page,
            !.bio = Section(page.bio),
            !.office = Section(page.office),
            !.email = Section(page.email),
            !.interests = IF Truthy(page.interests)
                            THEN get_text(page.interests_value)
                            ELSE page.interests]

\* interests.next_sibling.next_sibling is None: get_text() raises.
DetailRaises(page) == Truthy(page.interests) /\ page.interests_value = PyNone

\* Lines 448-478 for a block and a page that raise nothing: the namespace
\* when the row is built, from the namespace n0 at the head of the loop.
LoopBody(n0, person, page) ==
  DetailNs(PositionsNs(NameNs(n0, person), person), page)

\* Namespaces the head of the loop can hold: the fresh one, and the one
\* left by a first record that was written.
LoopHeadNs ==
  {FreshNs} \cup
  {LoopBody(FreshNs, b, p) :
     b \in {g \in GoodBlocks : Truthy(g.img)},
     p \in {q \in DetailPages : ~DetailRaises(q)}}

\* with open(output_csv, 'w') as f.
OpenF ==
  /\ run = "scrape" /\ pc = "start"
  /\ f' = OpenW(f)
  /\ trace' = Append(trace, Event("open", 0, <<"w">>, "ok"))
  /\ pc' = "header"
  /\ UNCHANGED <<run, isoVars, people, idx, ns>>

\* A faulty variant: the header is written only when the listing has a block.
ScrWriteHeader_OnlyWithRecords ==
  /\ run = "scrape" /\ pc = "header"
  /\ f' = IF people = <<>> THEN f ELSE writeheader(f, scr_field_names)
  /\ trace' = Append(trace, Event("write", 0, <<"header">>, "ok"))
  /\ pc' = "loop"
  /\ UNCHANGED <<run, isoVars, people, idx, ns>>

\* csv.DictWriter(f, field_names); writer.writeheader().
ScrWriteHeader ==
  /\ run = "scrape" /\ pc = "header"
  /\ f' = writeheader(f, scr_field_names)
  /\ trace' = Append(trace, Event("write", 0, <<"header">>, "ok"))
  /\ pc' = "loop"
  /\ UNCHANGED <<run, isoVars, people, idx, ns>>

\* A faulty variant: the loop leaves out the last block (people[:-1]).
ScrNextPerson_StopsEarly ==
  /\ run = "scrape" /\ pc = "loop"
  /\ IF idx + 1 < Len(people)
       THEN idx' = idx + 1 /\ pc' = "name"
       ELSE idx' = idx /\ pc' = "done"
  /\ UNCHANGED <<run, trace, isoVars, people, f, ns>>

\* for person in people.
ScrNextPerson ==
  /\ run = "scrape" /\ pc = "loop"
  /\ IF idx < Len(people)
       THEN idx' = idx + 1 /\ pc' = "name"
       ELSE idx' = idx /\ pc' = "done"
  /\ UNCHANGED <<run, trace, isoVars, people, f, ns>>

\* name_href, name, href, image_url and, when there is an img, image_file.
ScrParseName ==
  /\ run = "scrape" /\ pc = "name"
  /\ LET person == people[idx]
         nm == get_text(person.username)
         scraping == Event("print", idx, <<"Scraping">> \o nm.v, "ok")
     IN IF person.username = PyNone
          THEN /\ trace' = Uncaught(trace, "AttributeError", "name")
               /\ pc' = "aborted"
               /\ ns' = ns
          ELSE IF person.href = PyNone
          THEN /\ trace' = Uncaught(Append(trace, scraping), "TypeError", "href")
               /\ pc' = "aborted"
               /\ ns' = [ns EXCEPT !.name = nm]
          ELSE /\ trace' = Append(trace, scraping)
               /\ ns' = NameNs(ns, person)
               /\ pc' = IF Truthy(person.img) THEN "download" ELSE "positions"
  /\ UNCHANGED <<run, isoVars, people, f, idx>>

\* wget.download(image_url, out_dir + image_file) and its handler: the
\* handler's print adds a str to the exception, which raises TypeError
\* before image_file = err is reached.
ScrDownload ==
  /\ run = "scrape" /\ pc = "download"
  /\ \/ /\ trace' = Append(trace, Event("download", idx, ns.image_file.v, "ok"))
        /\ pc' = "positions"
     \/ /\ trace' = Uncaught(
             Append(trace, Event("download", idx, ns.image_file.v, "raise")),
             "TypeError", "print")
        /\ pc' = "aborted"
  /\ UNCHANGED <<run, isoVars, scrVars>>

\* pos_1, pos_2, other_affil: find(...).get_text(), then `if href`.
ScrParsePositions ==
  /\ run = "scrape" /\ pc = "positions"
  /\ LET person == people[idx]
     IN IF person.pos_1 = PyNone
          THEN /\ trace' = Uncaught(trace, "AttributeError", "pos_1")
               /\ pc' = "aborted"
               /\ ns' = ns
          ELSE IF person.pos_2 = PyNone
          THEN /\ trace' = Uncaught(trace, "AttributeError", "pos_2")
               /\ pc' = "aborted"
               /\ ns' = [ns EXCEPT !.pos_1 = get_text(person.pos_1)]
          ELSE IF person.other_affil = PyNone
          THEN /\ trace' = Uncaught(trace, "AttributeError", "other_affil")
               /\ pc' = "aborted"
               /\ ns' = [ns EXCEPT !.pos_1 = get_text(person.pos_1),
                                   !.pos_2 = get_text(person.pos_2)]
          ELSE /\ trace' = trace
               /\ ns' = PositionsNs(ns, person)
               /\ pc' = IF Truthy(ns.href) THEN "fetch" ELSE "write"
  /\ UNCHANGED <<run, isoVars, people, f, idx>>

\* requests.get(href), BeautifulSoup, and the four optional sections, for
\* a detail page out of pages.
FetchDetail(pages) ==
  /\ run = "scrape" /\ pc = "fetch"
  /\ \/ \E page \in pages :
          IF DetailRaises(page)
            THEN /\ trace' = Uncaught(
                      Append(trace, Event("get", idx, ns.href.v, "ok")),
                      "AttributeError", "interests")
                 /\ pc' = "aborted"
                 /\ ns' = [DetailNs(ns, page) EXCEPT !.interests = page.interests]
            ELSE /\ trace' = Append(trace, Event("get", idx, ns.href.v, "ok"))
                 /\ pc' = "write"
                 /\ ns' = DetailNs(ns, page)
     \/ /\ trace' = Uncaught(
             Append(trace, Event("get", idx, ns.href.v, "raise")),
             "ConnectionError", "get")
        /\ pc' = "aborted"
        /\ ns' = ns
  /\ UNCHANGED <<run, isoVars, people, f, idx>>

ScrFetchDetail == FetchDetail(DetailPages)

\* The same step with the server free to return any of AllDetailPages.
ScrFetchAnyDetail == FetchDetail(AllDetailPages)

\* A faulty variant: writer.writerow(row) is called twice for a record.
ScrWriteRow_Twice ==
  /\ run = "scrape" /\ pc = "write"
  /\ IF \E k \in DOMAIN RowDict(ns) : ns[k] = Unbound
       THEN /\ trace' = Uncaught(trace, "NameError", "row")
            /\ pc' = "aborted"
            /\ f' = f
       ELSE /\ f' = writerow(writerow(f, scr_field_names, idx, RowDict(ns)),
                             scr_field_names, idx, RowDict(ns))
            /\ trace' = trace \o <<Event("write", idx, <<"row">>, "ok"),
                                   Event("write", idx, <<"row">>, "ok")>>
            /\ pc' = "sleep"
  /\ UNCHANGED <<run, isoVars, people, idx, ns>>

\* row = {...}; writer.writerow(row).  Reading a name that was never
\* assigned raises NameError.
ScrWriteRow ==
  /\ run = "scrape" /\ pc = "write"
  /\ IF \E k \in DOMAIN RowDict(ns) : ns[k] = Unbound
       THEN /\ trace' = Uncaught(trace, "NameError", "row")
            /\ pc' = "aborted"
            /\ f' = f
       ELSE /\ f' = writerow(f, scr_field_names, idx, RowDict(ns))
            /\ trace' = Append(trace, Event("write", idx, <<"row">>, "ok"))
            /\ pc' = "sleep"
  /\ UNCHANGED <<run, isoVars, people, idx, ns>>

\* A faulty variant: the cell sleeps only after a record whose block has an image.
ScrSleep_OnlyWithImage ==
  /\ run = "scrape" /\ pc = "sleep"
  /\ trace' = IF Truthy(people[idx].img)
                THEN Append(trace, Event("sleep", idx, <<"1.5">>, "ok"))
                ELSE trace
  /\ pc' = "loop"
  /\ UNCHANGED <<run, isoVars, scrVars>>

\* time.sleep(1.5)
ScrSleep ==
  /\ run = "scrape" /\ pc = "sleep"
  /\ trace' = Append(trace, Event("sleep", idx, <<"1.5">>, "ok"))
  /\ pc' = "loop"
  /\ UNCHANGED <<run, isoVars, scrVars>>

(***************************************************************************)
(* Initial states and the specification.                                   *)
(***************************************************************************)
IsoInit ==
  /\ \E h \in Headers, n \in 0..MaxLines, ex \in BOOLEAN :
       \E ls \in [1..n -> InLines(h)] :
         infile = IF ex THEN [exists |-> TRUE, header |-> h, lines |-> ls]
                        ELSE [exists |-> FALSE, header |-> <<>>, lines |-> <<>>]
  /\ outcsv \in {NoFile, OldOutput}
  /\ field_names = <<>>
  /\ lineNo = 0
  /\ line = <<>>
  /\ request = NoResponse
  /\ received = <<>>
  /\ geojson = NoFile
  /\ KeyIdle

ScrInit ==
  /\ \E n \in 0..MaxPeople : people \in [1..n -> Blocks]
  /\ f \in {NoFile, OldFaculty}
  /\ idx = 0
  /\ ns = FreshNs

\* The cell that is not run stays as it is.
IsoIdle ==
  /\ infile = [exists |-> FALSE, header |-> <<>>, lines |-> <<>>]
  /\ outcsv = NoFile
  /\ field_names = <<>>
  /\ lineNo = 0
  /\ line = <<>>
  /\ request = NoResponse
  /\ received = <<>>
  /\ geojson = NoFile
  /\ KeyIdle

ScrIdle ==
  /\ people = <<>>
  /\ f = NoFile
  /\ idx = 0
  /\ ns = FreshNs

Init ==
  /\ pc = "start"
  /\ trace = <<>>
  /\ \/ run = "iso" /\ IsoInit /\ ScrIdle
     \/ run = "scrape" /\ ScrInit /\ IsoIdle

Next ==
  \/ OpenInfile
  \/ OpenOutcsv
  \/ IsoWriteHeader
  \/ IsoNextLine
  \/ IsoRequest
  \/ IsoConvert
  \/ IsoSleep
  \/ IsoWriteRow
  \/ OpenF
  \/ ScrWriteHeader
  \/ ScrNextPerson
  \/ ScrParseName
  \/ ScrDownload
  \/ ScrParsePositions
  \/ ScrFetchDetail
  \/ ScrWriteRow
  \/ ScrSleep

Spec == Init /\ [][Next]_vars

(***************************************************************************)
(* The scraper cell run on listings of blocks that have every element the  *)
(* cell dereferences, the server returning any of AllDetailPages.          *)
(***************************************************************************)
ImgBlocks == {g \in GoodBlocks : Truthy(g.img)}

InitDetail ==
  /\ pc = "start"
  /\ trace = <<>>
  /\ run = "scrape"
  /\ IsoIdle
  /\ \E n \in 0..MaxDetailPeople : people \in [1..n -> ImgBlocks]
  /\ f = NoFile
  /\ idx = 0
  /\ ns = FreshNs

NextDetail ==
  \/ OpenF
  \/ ScrWriteHeader
  \/ ScrNextPerson
  \/ ScrParseName
  \/ ScrDownload
  \/ ScrParsePositions
  \/ ScrFetchAnyDetail
  \/ ScrWriteRow
  \/ ScrSleep

SpecDetail == InitDetail /\ [][NextDetail]_vars

(***************************************************************************)
(* The scraper cell run on a listing of one block with an img element,     *)
(* whose name is any text of up to MaxNameLen characters of NameChars.     *)
(***************************************************************************)
NameChars == {"A", "Z", "b", " ", ".", "_"}

NamesUpTo(n) == UNION {[1..k -> NameChars] : k \in 0..n}

InitNames ==
  /\ pc = "start"
  /\ trace = <<>>
  /\ run = "scrape"
  /\ IsoIdle
  /\ \E nm \in NamesUpTo(MaxNameLen) : people = <<Block(nm, TRUE)>>
  /\ f = NoFile
  /\ idx = 0
  /\ ns = FreshNs

NextNames ==
  \/ OpenF
  \/ ScrWriteHeader
  \/ ScrNextPerson
  \/ ScrParseName
  \/ ScrDownload
  \/ ScrParsePositions
  \/ ScrFetchDetail
  \/ ScrWriteRow
  \/ ScrSleep

SpecNames == InitNames /\ [][NextNames]_vars

(***************************************************************************)
(* The scraper cell run on a listing of two blocks with img elements,      *)
(* whose names are any two texts of up to MaxPairNameLen characters of     *)
(* PairChars; every detail page has all its sections.                      *)
(***************************************************************************)
PairChars == {"A", "a", " ", "_", "."}

PairNames == UNION {[1..k -> PairChars] : k \in 1..MaxPairNameLen}

FullPage ==
  Page(Tag(<<"Bio text">>), Tag(<<"9-520">>), Tag(<<"x@mit.edu">>),
       Tag(<<"Areas of Interest">>), Tag(<<"Housing">>))

ScrFetchFullPage == FetchDetail({FullPage})

InitPairs ==
  /\ pc = "start"
  /\ trace = <<>>
  /\ run = "scrape"
  /\ IsoIdle
  /\ \E n1 \in PairNames, n2 \in PairNames :
       people = <<Block(n1, TRUE), Block(n2, TRUE)>>
  /\ f = NoFile
  /\ idx = 0
  /\ ns = FreshNs

NextPairs ==
  \/ OpenF
  \/ ScrWriteHeader
  \/ ScrNextPerson
  \/ ScrParseName
  \/ ScrDownload
  \/ ScrParsePositions
  \/ ScrFetchFullPage
  \/ ScrWriteRow
  \/ ScrSleep

SpecPairs == InitPairs /\ [][NextPairs]_vars

(***************************************************************************)
(* The single-request cells: ors.directions / ors.isochrones, and          *)
(* json.dump of the response to a GeoJSON file.  `run` is "route" or       *)
(* "isochrone"; the response of either cell is held in `request` (the      *)
(* route cell calls it route).                                             *)
(***************************************************************************)

\* A coordinate is a decimal number of up to FracDigits fractional digits,
\* held as the integer number of 10^-FracDigits units: -71099530 is
\* -71.09953.
FracDigits == 6

RECURSIVE Pow10(_)
Pow10(n) == IF n = 0 THEN 1 ELSE 10 * Pow10(n - 1)

Abs(m) == IF m < 0 THEN -m ELSE m

DigitChars == <<"0", "1", "2", "3", "4", "5", "6", "7", "8", "9">>

\* The decimal digits of a natural number.
RECURSIVE NatDigits(_)
NatDigits(n) ==
  IF n < 10 THEN <<DigitChars[n + 1]>>
  ELSE NatDigits(n \div 10) \o <<DigitChars[(n % 10) + 1]>>

\* Digits padded on the left with zeros to width w.
RECURSIVE Padded(_, _)
Padded(ds, w) == IF Len(ds) >= w THEN ds ELSE Padded(<<"0">> \o ds, w)

\* Digits without trailing zeros; one digit at least is kept.
RECURSIVE Trimmed(_)
Trimmed(ds) ==
  IF Len(ds) > 1 /\ ds[Len(ds)] = "0"
    THEN Trimmed(SubSeq(ds, 1, Len(ds) - 1))
    ELSE ds

\* A faulty variant: the fraction is printed without its leading zeros.
float_repr_Unpadded(m) ==
  (IF m < 0 THEN <<"-">> ELSE <<>>)
  \o NatDigits(Abs(m) \div Pow10(FracDigits))
  \o <<".">>
  \o Trimmed(NatDigits(Abs(m) % Pow10(FracDigits)))

\* float.__repr__ as json.dump uses it: sign, integer part, point, and the
\* fraction to its last non-zero digit ("42.0" for a whole number).
float_repr(m) ==
  (IF m < 0 THEN <<"-">> ELSE <<>>)
  \o NatDigits(Abs(m) \div Pow10(FracDigits))
  \o <<".">>
  \o Trimmed(Padded(NatDigits(Abs(m) % Pow10(FracDigits)), FracDigits))

\* The tokens of a JSON text.
Punct(c) == [t |-> "punct", v |-> <<c>>]
JStr(s) == [t |-> "string", v |-> <<s>>]
JNum(m) == [t |-> "number", v |-> float_repr(m)]

\* Token sequences separated by commas.
RECURSIVE Joined(_)
Joined(parts) ==
  IF parts = <<>> THEN <<>>
  ELSE IF Len(parts) = 1 THEN parts[1]
  ELSE parts[1] \o <<Punct(",")>> \o Joined(Tail(parts))

JArray(parts) == <<Punct("[")>> \o Joined(parts) \o <<Punct("]")>>

JObject(keys, vals) ==
  <<Punct("{")>>
  \o Joined([i \in DOMAIN keys |-> <<JStr(keys[i]), Punct(":")>> \o vals[i]])
  \o <<Punct("}")>>

\* json.dump of the response, member by member: a list of points for a
\* LineString, a list of rings of points for a Polygon.
DumpPoint(pt) == JArray([i \in DOMAIN pt |-> <<JNum(pt[i])>>])
DumpPoints(pts) == JArray([i \in DOMAIN pts |-> DumpPoint(pts[i])])
DumpGeometry(g) ==
  JObject(<<"coordinates", "type">>,
          << IF g.type = "LineString"
               THEN DumpPoints(g.coordinates)
               ELSE JArray([i \in DOMAIN g.coordinates |->
                              DumpPoints(g.coordinates[i])]),
             <<JStr(g.type)>> >>)
DumpFeature(ft) == JObject(<<"geometry">>, <<DumpGeometry(ft.geometry)>>)
json_dump(fc) ==
  JObject(<<"features">>,
          <<JArray([i \in DOMAIN fc.features |-> DumpFeature(fc.features[i])])>>)

\* The value of a digit character, and of a sequence of them.
DigitValue(c) == (CHOOSE i \in DOMAIN DigitChars : DigitChars[i] = c) - 1

RECURSIVE NatValue(_)
NatValue(ds) ==
  IF ds = <<>> THEN 0
  ELSE 10 * NatValue(SubSeq(ds, 1, Len(ds) - 1)) + DigitValue(ds[Len(ds)])

\* float() of a JSON number text, as json.load reads it.
float_parse(cs) ==
  LET neg  == cs[1] = "-"
      body == IF neg THEN Tail(cs) ELSE cs
      dot  == CHOOSE i \in DOMAIN body : body[i] = "."
      ip   == SubSeq(body, 1, dot - 1)
      fp   == SubSeq(body, dot + 1, Len(body))
      mag  == NatValue(ip) * Pow10(FracDigits)
              + NatValue(fp) * Pow10(FracDigits - Len(fp))
  IN IF neg THEN -mag ELSE mag

\* json.load: a number, a string, a list (a sequence) or an object (a
\* function of its keys), read from token i on; next is the token after it.
RECURSIVE ParseValue(_, _), ParseElements(_, _), ParseMembers(_, _)
ParseValue(toks, i) ==
  IF toks[i].t = "number" THEN [v |-> float_parse(toks[i].v), next |-> i + 1]
  ELSE IF toks[i].t = "string" THEN [v |-> toks[i].v[1], next |-> i + 1]
  ELSE IF toks[i] = Punct("[")
    THEN IF toks[i + 1] = Punct("]")
           THEN [v |-> <<>>, next |-> i + 2]
           ELSE ParseElements(toks, i + 1)
    ELSE ParseMembers(toks, i + 1)

ParseElements(toks, i) ==
  LET first == ParseValue(toks, i)
  IN IF toks[first.next] = Punct(",")
       THEN LET rest == ParseElements(toks, first.next + 1)
            IN [v |-> <<first.v>> \o rest.v, next |-> rest.next]
       ELSE [v |-> <<first.v>>, next |-> first.next + 1]

ParseMembers(toks, i) ==
  LET key == toks[i].v[1]
      val == ParseValue(toks, i + 2)
  IN IF toks[val.next] = Punct(",")
       THEN LET rest == ParseMembers(toks, val.next + 1)
            IN [v |-> (key :> val.v) @@ rest.v, next |-> rest.next]
       ELSE [v |-> (key :> val.v), next |-> val.next + 1]

json_load(toks) == ParseValue(toks, 1).v

\* Points the service may return, and the geometries made of them.
Longitudes == {-71099530, -71094038, -71100000}
Latitudes == {42379235, 42378790, 42000000, 42050000}
Points == {<<x, y>> : x \in Longitudes, y \in Latitudes}
PointLists == UNION {[1..n -> Points] : n \in 1..MaxCoords}
LineString(pts) == [type |-> "LineString", coordinates |-> pts]

\* Responses of ors.directions (a LineString) and of ors.isochrones (a
\* Polygon of one ring).
SingleResponses ==
  IF run = "route"
    THEN {[features |-> <<Feature(LineString(pts))>>] : pts \in PointLists}
    ELSE {[features |-> <<Feature(Polygon(pts))>>] : pts \in PointLists}

\* A GeoJSON file left by an earlier run of the cell.
OldGeoJSON ==
  File(json_dump([features |-> <<Feature(LineString(<<<<-71000000, 42000000>>>>))>>]))

\* route = ors.directions(**params) / request = ors.isochrones(**params):
\* the response is bound, or the error is printed and the name stays as
\* it was.
SingleRequest ==
  /\ run \in {"route", "isochrone"} /\ pc = "start"
  /\ \/ \E r \in SingleResponses :
          /\ request' = r
          /\ trace' = Append(trace, Event(run, 0, <<"params">>, "ok"))
     \/ /\ trace' = trace \o
             <<Event(run, 0, <<"params">>, "raise"),
               Event("print", 0, <<"ApiError">>, "ok")>>
        /\ UNCHANGED request
  /\ pc' = "dump"
  /\ UNCHANGED <<run, infile, outcsv, field_names, lineNo, line, received,
                 geojson, keyVars, scrVars>>

\* json.dump(route, open('single_route.geojson', 'w')): the name is read
\* before the file is opened, NameError when it was never bound; the file
\* holds the text (as tokens) once the call has returned.
DumpGeoJSON ==
  /\ run \in {"route", "isochrone"} /\ pc = "dump"
  /\ IF request = Unbound
       THEN /\ trace' = Uncaught(trace, "NameError", "dump")
            /\ pc' = "aborted"
            /\ UNCHANGED geojson
       ELSE /\ geojson' = File(json_dump(request))
            /\ trace' = Append(trace, Event("write", 0, <<"geojson">>, "ok"))
            /\ pc' = "done"
  /\ UNCHANGED <<run, infile, outcsv, field_names, lineNo, line, request,
                 received, keyVars, scrVars>>

InitJson ==
  /\ pc = "dotenv"
  /\ trace = <<>>
  /\ run \in {"route", "isochrone"}
  /\ infile = [exists |-> FALSE, header |-> <<>>, lines |-> <<>>]
  /\ outcsv = NoFile
  /\ field_names = <<>>
  /\ lineNo = 0
  /\ line = <<>>
  /\ request = Unbound
  /\ received = <<>>
  /\ geojson \in {NoFile, OldGeoJSON}
  /\ KeyInit
  /\ ScrIdle

NextJson ==
  \/ LoadDotenv
  \/ GetKey
  \/ MakeClient
  \/ SingleRequest
  \/ DumpGeoJSON

SpecJson == InitJson /\ [][NextJson]_vars

(***************************************************************************)
(* Definitions the properties below are stated with.                       *)
(***************************************************************************)

\* The output file of the cell that runs.
Out == IF run = "iso" THEN outcsv ELSE f

\* Record r has a data row in the file.
HasRow(file, r) ==
  \E i \in DOMAIN file.lines : file.lines[i].kind = "row" /\ file.lines[i].rec = r

\* The data row of record r (when it has one).
RowOf(file, r) ==
  file.lines[CHOOSE i \in DOMAIN file.lines :
               file.lines[i].kind = "row" /\ file.lines[i].rec = r]

\* The cell of a line under a field name.
Cell(names, l, name) == l.cells[CHOOSE i \in DOMAIN names : names[i] = name]

\* The records for which a call of kind op ended with res.
RecordsWith(op, res) ==
  {trace[k].rec : k \in {j \in EventsOf(op) : trace[j].res = res}}

\* The records at which the statement stmt raised.
RaisedAt(stmt) ==
  {trace[k].rec : k \in {j \in EventsOf("raise") : trace[j].arg[2] = stmt}}

\* The header was written in this run.
HeaderWritten ==
  \E k \in EventsOf("write") : trace[k].rec = 0

\* The cell has ended, normally or by an uncaught exception.
Ended == pc \in {"done", "aborted"}

\* Every line of the input CSV has exactly the header's columns.
AllLinesValid ==
  \A i \in DOMAIN infile.lines : Len(infile.lines[i]) = Len(infile.header)

\* The text of the error a failed image download raises.
DownloadError == <<"HTTP Error 404: Not Found">>

(***************************************************************************)
(* C1 (as stated): batch isochrone cell, every line of the input CSV       *)
(* valid: when the cell has finished, the number of data rows of the       *)
(* output equals the number N of input lines minus the number of lines     *)
(* whose isochrone request raised.  Fails: a request that returns a        *)
(* feature collection the conversion to WKT rejects writes no row either.  *)
(***************************************************************************)
C1_RowCountAsStated ==
  (run = "iso" /\ pc = "done" /\ infile.exists /\ AllLinesValid) =>
    Len(DataRows(outcsv)) =
      Len(infile.lines) - Cardinality(RecordsWith("isochrones", "raise"))

(***************************************************************************)
(* C1 (amended): batch isochrone cell, every line of the input CSV valid:  *)
(* when the cell has finished, the number of data rows of the output       *)
(* equals N minus the number of lines whose isochrone request raised or    *)
(* whose response could not be converted to WKT.                           *)
(***************************************************************************)
C1_RowCount ==
  (run = "iso" /\ pc = "done" /\ infile.exists /\ AllLinesValid) =>
    Len(DataRows(outcsv)) =
      Len(infile.lines) -
        Cardinality(RecordsWith("isochrones", "raise") \cup RaisedAt("geom"))

C1_Witness ==
  /\ run = "iso" /\ pc = "done" /\ infile.exists /\ AllLinesValid
  /\ Len(infile.lines) = 3
  /\ Cardinality(RecordsWith("isochrones", "raise")) = 1
  /\ Cardinality(RaisedAt("geom")) = 1
  /\ Len(DataRows(outcsv)) = 1

(***************************************************************************)
(* C2: batch isochrone cell: when the isochrone request of a line raises,  *)
(* the error is printed right after it, no row is ever written for that    *)
(* line, and when the cell has finished a request has been sent for        *)
(* every later line.                                                       *)
(***************************************************************************)
C2_FailedRequestSkipped ==
  run = "iso" =>
    \A k \in EventsOf("isochrones") :
      trace[k].res = "raise" =>
        /\ k + 1 \in DOMAIN trace
        /\ trace[k + 1].op = "print" /\ trace[k + 1].rec = trace[k].rec
        /\ ~HasRow(outcsv, trace[k].rec)
        /\ pc = "done" =>
             \A j \in (trace[k].rec + 1)..Len(infile.lines) :
               \E m \in EventsOf("isochrones") : trace[m].rec = j

C2_Witness ==
  /\ run = "iso" /\ pc = "done"
  /\ 1 \in RecordsWith("isochrones", "raise")
  /\ HasRow(outcsv, 2)
  /\ 3 \in RecordsWith("isochrones", "ok")

(***************************************************************************)
(* C3 (the claim): scraper cell: when the image download of a record       *)
(* fails, then once the cell has ended that record has a row whose         *)
(* image_file column holds the error text, and every later record has its  *)
(* row too.                                                                *)
(***************************************************************************)
C3_DownloadFailureRecorded ==
  (run = "scrape" /\ Ended) =>
    \A r \in RecordsWith("download", "raise") :
      /\ HasRow(f, r)
      /\ Cell(scr_field_names, RowOf(f, r), "image_file") = CsvCell(Exc(DownloadError))
      /\ \A j \in (r + 1)..Len(people) : HasRow(f, j)

(***************************************************************************)
(* C4 (the claim): scraper cell: a record block without an img element     *)
(* gets a row, written with all ten columns, whose image_file column is    *)
(* empty.                                                                  *)
(***************************************************************************)
C4_NoImageEmptyColumn ==
  run = "scrape" =>
    \A r \in 1..Len(people) :
      people[r].img = PyNone =>
        /\ r \notin RaisedAt("row")
        /\ HasRow(f, r) =>
             /\ Len(RowOf(f, r).cells) = Len(scr_field_names)
             /\ Cell(scr_field_names, RowOf(f, r), "image_file") = <<>>

(***************************************************************************)
(* C5 (the claim): scraper cell: when the fetch of a record's detail page  *)
(* raises, the cell goes on: once it has ended, that record has no row or  *)
(* a row with empty detail columns, and every later record of the listing  *)
(* has its row.                                                            *)
(***************************************************************************)
C5_DetailFailureContinues ==
  (run = "scrape" /\ Ended) =>
    \A r \in RecordsWith("get", "raise") :
      /\ HasRow(f, r) =>
           \A c \in {"bio", "office", "email", "interests"} :
             Cell(scr_field_names, RowOf(f, r), c) = <<>>
      /\ \A j \in (r + 1)..Len(people) : HasRow(f, j)

(***************************************************************************)
(* C6 (the claim): scraper cell: a record block that lacks the pos_1,      *)
(* pos_2 or other_affil element does not make the cell raise, and its row  *)
(* has an empty value in the column of each element it lacks.              *)
(***************************************************************************)
C6_MissingPositionEmpty ==
  run = "scrape" =>
    \A r \in 1..Len(people) :
      \A c \in {"pos_1", "pos_2", "other_affil"} :
        people[r][c] = PyNone =>
          /\ r \notin RaisedAt(c)
          /\ HasRow(f, r) => Cell(scr_field_names, RowOf(f, r), c) = <<>>

(***************************************************************************)
(* C7 (the claim): the row a cell is about to write depends only on the    *)
(* record's own input and responses: in the scraper, the loop body run     *)
(* from the namespace any other listing prefix leaves behind builds the    *)
(* same row; in the isochrone cell, the line written is the input line     *)
(* with the geometry of the response to its own request.                   *)
(***************************************************************************)
C7_RowDependsOnOwnRecord ==
  /\ (run = "scrape" /\ pc = "write") =>
       \A n0 \in LoopHeadNs :
         RowDict(LoopBody(n0, people[idx], ns.person_soup)) = RowDict(ns)
  /\ (run = "iso" /\ pc = "write") =>
       line = WithGeom(DictReaderRow(infile.header, infile.lines[lineNo]), request)

(***************************************************************************)
(* C8: in both cells, once the header has been written the output file is  *)
(* one header line followed by data rows of this run only: no second       *)
(* header, no row before the header, nothing left of an earlier run.       *)
(***************************************************************************)
C8_OneHeaderThenRows ==
  HeaderWritten =>
    /\ Out.exists
    /\ Out.lines # <<>>
    /\ Out.lines[1].kind = "header" /\ Out.lines[1].rec = 0
    /\ \A i \in 2..Len(Out.lines) :
         Out.lines[i].kind = "row" /\ Out.lines[i].rec >= 1

C8_Witness ==
  /\ run = "scrape" /\ pc = "done"
  /\ Len(f.lines) = 3
  /\ f.lines[1].kind = "header"

(***************************************************************************)
(* C9: in both cells the data rows are in input order: a row is the row    *)
(* of the record its first input column names, and of two rows the one     *)
(* of the earlier record comes first.                                      *)
(***************************************************************************)
C9_RowsInInputOrder ==
  /\ \A i, j \in DOMAIN Out.lines :
       (i < j /\ Out.lines[i].kind = "row" /\ Out.lines[j].kind = "row"
          /\ Out.lines[i].rec >= 1) =>
         Out.lines[i].rec < Out.lines[j].rec
  /\ \A i \in DOMAIN Out.lines :
       (Out.lines[i].kind = "row" /\ Out.lines[i].rec >= 1) =>
         IF run = "iso"
           THEN Out.lines[i].cells[1] = infile.lines[Out.lines[i].rec][1]
           ELSE Out.lines[i].cells[1] = people[Out.lines[i].rec].username.v

C9_Witness ==
  /\ run = "iso" /\ pc = "done"
  /\ HasRow(outcsv, 1) /\ HasRow(outcsv, 3) /\ ~HasRow(outcsv, 2)
  /\ infile.lines[1] # infile.lines[3]

NetworkOps == {"isochrones", "download", "get"}
NetworkCalls == {k \in DOMAIN trace : trace[k].op \in NetworkOps}

(***************************************************************************)
(* C11: no retries: in either cell, whatever the outcome of a call, the    *)
(* trace holds at most one isochrone request per CSV line, at most one     *)
(* image download and at most one detail-page fetch per listing record.    *)
(***************************************************************************)
C11_NoRetries ==
  \A op \in NetworkOps :
    \A k, m \in EventsOf(op) : trace[k].rec = trace[m].rec => k = m

C11_Witness ==
  /\ run = "iso" /\ pc = "done"
  /\ 1 \in RecordsWith("isochrones", "raise")
  /\ 2 \in RecordsWith("isochrones", "ok")
  /\ 3 \in RecordsWith("isochrones", "raise")
  /\ Cardinality(EventsOf("isochrones")) = 3

(***************************************************************************)
(* C12: batch isochrone cell: between any two isochrone requests of a run  *)
(* sleep(2) has been executed, whether the earlier request returned or     *)
(* raised.  Fails: sleep(2) is inside the try block after the request, so  *)
(* it is skipped when the request raises or its response is rejected.      *)
(***************************************************************************)
C12_SleepBetweenRequests ==
  run = "iso" =>
    \A k, m \in EventsOf("isochrones") :
      k < m => \E s \in EventsOf("sleep") : k < s /\ s < m

(***************************************************************************)
(* C13: in both cells a record's row is written at most once, after every  *)
(* network call of that record has returned and before any network call    *)
(* of a later record is issued.                                            *)
(***************************************************************************)
C13_RowAfterOwnCalls ==
  /\ \A k, m \in EventsOf("write") : trace[k].rec = trace[m].rec => k = m
  /\ \A i, j \in DOMAIN Out.lines :
       (/\ Out.lines[i].kind = "row" /\ Out.lines[j].kind = "row"
        /\ Out.lines[i].rec > 0 /\ Out.lines[i].rec = Out.lines[j].rec) => i = j
  /\ \A w \in EventsOf("write") : \A c \in NetworkCalls :
       IF trace[c].rec <= trace[w].rec THEN c < w ELSE w < c

C13_Witness ==
  /\ run = "scrape" /\ pc = "done" /\ Len(people) = 2
  /\ HasRow(f, 1) /\ HasRow(f, 2)
  /\ RecordsWith("download", "ok") = {1, 2}
  /\ RecordsWith("get", "ok") = {1, 2}

\* The output file has been opened (and truncated) by this run.
Opened == Out.exists /\ \A i \in DOMAIN Out.lines : Out.lines[i].rec >= 0

\* The records whose row has been written so far, in the order of writing.
WrittenRecs ==
  LET w == SelectSeq(trace, LAMBDA e : e.op = "write" /\ e.rec > 0)
  IN  [i \in DOMAIN w |-> w[i].rec]

\* The file holds the header line and then one row per record written so
\* far, in the order of writing.
HeaderThenRows ==
  /\ Len(Out.lines) = 1 + Len(WrittenRecs)
  /\ Out.lines[1].kind = "header"
  /\ \A i \in DOMAIN WrittenRecs :
       Out.lines[i + 1].kind = "row" /\ Out.lines[i + 1].rec = WrittenRecs[i]

\* Sequence s is a prefix of sequence t.
IsPrefix(s, t) == Len(s) <= Len(t) /\ SubSeq(t, 1, Len(s)) = s

(***************************************************************************)
(* C14 (as stated): in every state in which this run has opened the output *)
(* file, the file holds the header followed by the rows of the records     *)
(* completed so far.  Fails: between open(..., 'w') and writeheader() the  *)
(* file is empty.                                                          *)
(***************************************************************************)
C14_AlwaysHeaderThenRows == Opened => HeaderThenRows

(***************************************************************************)
(* C14 (amended): in both cells, from the writing of the header on, the    *)
(* file holds the header followed by the rows of the records completed so  *)
(* far, in that order, and every step leaves the lines already in the      *)
(* file unchanged and at most appends to them.                             *)
(***************************************************************************)
C14_AppendOnly ==
  /\ [](HeaderWritten => HeaderThenRows)
  /\ [][HeaderWritten => IsPrefix(Out.lines, Out'.lines)]_vars

C14_Witness ==
  /\ run = "scrape" /\ pc = "fetch" /\ idx = 3
  /\ WrittenRecs = <<1, 2>>
  /\ Len(f.lines) = 3

\* The coordinate pairs a WKT text lists, in the order of the text.
PointsOf(text) == SelectSeq(text, LAMBDA w : w \notin {"POLYGON", "(", ")"})

\* The points of the rings of a geometry as WKT prints them, ring by ring.
RECURSIVE PointsIn(_)
PointsIn(rings) ==
  IF rings = <<>> THEN <<>>
  ELSE [i \in DOMAIN Head(rings) |->
          ToString(Head(rings)[i][1]) \o " " \o ToString(Head(rings)[i][2])]
       \o PointsIn(Tail(rings))

\* The response received for line r (when there is one).
ResponseOf(r) ==
  received[CHOOSE i \in DOMAIN received : received[i].rec = r].response

(***************************************************************************)
(* C15: batch isochrone cell: every row in the output file belongs to a    *)
(* line whose request returned, and its geom cell lists the coordinates    *)
(* of the geometry of the first feature of that response, in the order     *)
(* received; when the input has one valid line and the service returned    *)
(* a fixed polygon for it, the finished output has exactly one data row,   *)
(* carrying the points of that polygon.                                    *)
(***************************************************************************)
C15_GeomOfOwnResponse ==
  run = "iso" =>
    /\ \A i \in DOMAIN outcsv.lines :
         outcsv.lines[i].kind = "row" /\ outcsv.lines[i].rec > 0 =>
           LET r == outcsv.lines[i].rec
           IN  /\ \E j \in DOMAIN received : received[j].rec = r
               /\ PointsOf(Cell(field_names, outcsv.lines[i], "geom")) =
                    PointsIn(ResponseOf(r).features[1].geometry.coordinates)
    /\ (/\ pc = "done" /\ Len(infile.lines) = 1 /\ AllLinesValid
        /\ Len(received) = 1
        /\ received[1].response = [features |-> <<Feature(Polygon(Ring1))>>]) =>
          /\ Len(DataRows(outcsv)) = 1
          /\ PointsOf(Cell(field_names, DataRows(outcsv)[1], "geom")) =
               <<"0 0", "1 0", "0 1", "0 0">>

C15_Witness ==
  /\ run = "iso" /\ pc = "done" /\ Len(infile.lines) = 2
  /\ Len(received) = 2
  /\ received[1].response = [features |-> <<Feature(Polygon(Ring1))>>]
  /\ Len(received[2].response.features) = 2
  /\ Len(DataRows(outcsv)) = 2
  /\ PointsOf(Cell(field_names, RowOf(outcsv, 2), "geom")) =
       <<"2 2", "3 2", "2 3", "2 2">>

(***************************************************************************)
(* C16: scraper cell: when the listing page has no record block, no image  *)
(* download and no detail-page fetch is ever issued, the cell does not     *)
(* abort, and when it has finished the output file holds the header line   *)
(* and no data row.                                                        *)
(***************************************************************************)
C16_EmptyListing ==
  (run = "scrape" /\ people = <<>>) =>
    /\ EventsOf("download") = {} /\ EventsOf("get") = {}
    /\ pc # "aborted"
    /\ pc = "done" =>
         /\ Len(f.lines) = 1
         /\ f.lines[1].kind = "header"
         /\ f.lines[1].cells = [i \in DOMAIN scr_field_names |-> <<scr_field_names[i]>>]
         /\ DataRows(f) = <<>>

C16_Witness ==
  /\ run = "scrape" /\ people = <<>> /\ pc = "done"
  /\ f.exists /\ Len(f.lines) = 1

\* A page on which each section is wholly present or wholly absent.
WellFormed(page) == page.interests = PyNone \/ page.interests_value # PyNone

\* The cell expected for a section element: its text, or '' when absent.
SectionText(el) == IF el = PyNone THEN <<>> ELSE el.v

(***************************************************************************)
(* C17: detail parser: whichever of the four optional sections (bio,       *)
(* office, email, interests) the detail page of a record has, the row      *)
(* written for the record holds the text of each section that is present   *)
(* and an empty cell for each that is absent, so no section's cell depends *)
(* on the presence of another; and the parser raises only for a page that  *)
(* has the interests label without its value element, never for an absent  *)
(* section.                                                                *)
(***************************************************************************)
C17_DetailSections ==
  run = "scrape" =>
    /\ pc = "sleep" =>
         LET page == ns.person_soup
             row == RowOf(f, idx)
         IN  /\ WellFormed(page)
             /\ Cell(scr_field_names, row, "bio") = SectionText(page.bio)
             /\ Cell(scr_field_names, row, "office") = SectionText(page.office)
             /\ Cell(scr_field_names, row, "email") = SectionText(page.email)
             /\ Cell(scr_field_names, row, "interests") =
                  IF page.interests = PyNone THEN <<>>
                  ELSE SectionText(page.interests_value)
    /\ \A r \in RaisedAt("interests") :
         pc = "aborted" /\ r = idx /\ ~WellFormed(ns.person_soup)
    /\ (pc = "write" /\ idx \in RecordsWith("get", "ok")) =>
         WellFormed(ns.person_soup)

C17_Witness ==
  /\ run = "scrape" /\ pc = "sleep" /\ idx = 2
  /\ Cell(scr_field_names, RowOf(f, 1), "bio") = <<"Bio text">>
  /\ Cell(scr_field_names, RowOf(f, 1), "office") = <<"9-520">>
  /\ Cell(scr_field_names, RowOf(f, 1), "interests") = <<"Housing">>
  /\ ns.person_soup.bio = PyNone /\ ns.person_soup.office = PyNone
  /\ ns.person_soup.interests = PyNone
  /\ Cell(scr_field_names, RowOf(f, 2), "email") = <<"x@mit.edu">>
  /\ Cell(scr_field_names, RowOf(f, 2), "bio") = <<>>

\* Block r of the listing has a name link without a detail-page address.
NoDetailLink(r) == people[r].username # PyNone /\ people[r].href = PyNone

(***************************************************************************)
(* C18: scraper cell: for a record block without a detail-page link no     *)
(* detail page is fetched, and once the cell has ended after reaching the  *)
(* block, the block's row is in the file with its name and empty bio,      *)
(* office, email and interests cells.  Fails: 'http://dusp.mit.edu' +      *)
(* name_href.get('href') raises TypeError for such a block, which ends     *)
(* the cell before the row is written.                                     *)
(***************************************************************************)
C18_NoLinkRowWritten ==
  run = "scrape" =>
    \A r \in DOMAIN people :
      NoDetailLink(r) =>
        /\ r \notin RecordsWith("get", "ok") \cup RecordsWith("get", "raise")
        /\ (Ended /\ idx >= r) =>
             /\ HasRow(f, r)
             /\ Cell(scr_field_names, RowOf(f, r), "name") = people[r].username.v
             /\ \A c \in {"bio", "office", "email", "interests"} :
                  Cell(scr_field_names, RowOf(f, r), c) = <<>>

\* The filename stem the text describes, character by character: a period
\* is dropped, a space becomes an underscore, a letter is lower-cased.
RECURSIVE Slug(_)
Slug(nm) ==
  IF nm = <<>> THEN <<>>
  ELSE (IF Head(nm) = "." THEN <<>>
        ELSE IF Head(nm) = " " THEN <<"_">>
        ELSE <<lower(Head(nm))>>) \o Slug(Tail(nm))

(***************************************************************************)
(* C19: image filename: the file every image download is directed to is    *)
(* the record's name with each space replaced by an underscore, each       *)
(* letter lower-cased and each period removed, followed by '.jpg'; the     *)
(* part before '.jpg' holds no space, no period and no upper-case letter.  *)
(***************************************************************************)
C19_ImageFilename ==
  run = "scrape" =>
    \A k \in EventsOf("download") :
      LET nm == people[trace[k].rec].username.v
          file == trace[k].arg
          stem == SubSeq(file, 1, Len(file) - 1)
      IN  /\ file = Slug(nm) \o <<".jpg">>
          /\ \A i \in DOMAIN stem :
               /\ stem[i] \notin {" ", "."}
               /\ \A j \in DOMAIN UpperChars : stem[i] # UpperChars[j]

C19_Witness ==
  /\ run = "scrape"
  /\ people # <<>> /\ people[1].username.v = <<"Z", ".", " ">>
  /\ \E k \in EventsOf("download") :
       trace[k].rec = 1 /\ trace[k].arg = <<"z", "_", ".jpg">>

(***************************************************************************)
(* C20: image filename derivation is deterministic: two image downloads    *)
(* for records of the same name are directed to the same file, and the     *)
(* file of each download is the one derived from the record's name alone,  *)
(* whatever the record's position and whatever records came before it.     *)
(***************************************************************************)
C20_SameNameSameFile ==
  run = "scrape" =>
    /\ \A k, m \in EventsOf("download") :
         people[trace[k].rec].username = people[trace[m].rec].username =>
           trace[k].arg = trace[m].arg
    /\ \A k \in EventsOf("download") :
         trace[k].arg = ImageFile(people[trace[k].rec].username.v)

C20_Witness ==
  /\ run = "scrape" /\ Len(people) = 3
  /\ people[1].username = people[3].username
  /\ people[2].username # people[1].username
  /\ RecordsWith("download", "ok") = {1, 2, 3}
  /\ \E k, m \in EventsOf("download") :
       trace[k].rec = 1 /\ trace[m].rec = 3 /\ trace[k].arg = trace[m].arg

\* The message of the FileNotFoundError handler has been printed.
MissingReported ==
  \E k \in EventsOf("print") :
    trace[k].rec = 0 /\ trace[k].arg = <<"camberville_t.csv does not exist">>

(***************************************************************************)
(* C21: batch isochrone cell: when the input CSV does not exist, the cell  *)
(* prints that it does not exist and ends at once; no isochrone request    *)
(* is ever sent and no data row is ever written.                           *)
(***************************************************************************)
C21_MissingInputAborts ==
  (run = "iso" /\ ~infile.exists) =>
    /\ pc \in {"start", "done"}
    /\ pc = "done" => MissingReported
    /\ EventsOf("isochrones") = {}
    /\ \A k \in EventsOf("write") : trace[k].rec = 0
    /\ \A i \in DOMAIN outcsv.lines : outcsv.lines[i].rec <= 0

C21_Witness ==
  /\ run = "iso" /\ ~infile.exists /\ pc = "done"
  /\ MissingReported
  /\ Len(trace) = 1

(***************************************************************************)
(* C22: GeoJSON round trip: after a route or isochrone request that        *)
(* succeeded and the dump of its response, reading the GeoJSON file back   *)
(* gives the response that was received; in particular the coordinates of  *)
(* its geometry are the same numbers in the same order.                    *)
(***************************************************************************)
C22_GeoJSONRoundTrip ==
  (run \in {"route", "isochrone"} /\ pc = "done") =>
    /\ json_load(geojson.lines) = request
    /\ json_load(geojson.lines).features[1].geometry.coordinates =
         request.features[1].geometry.coordinates

C22_Witness ==
  /\ run = "route" /\ pc = "done"
  /\ request.features[1].geometry.coordinates =
       <<<<-71099530, 42050000>>, <<-71100000, 42000000>>>>
  /\ geojson.lines[13].v = <<"-", "7", "1", ".", "0", "9", "9", "5", "3">>
  /\ geojson.lines[15].v = <<"4", "2", ".", "0", "5">>
  /\ geojson.lines[21].v = <<"4", "2", ".", "0">>

\* The .env file holds the line of the tutorial, with key k.
TutorialEnv(k) == dotenv.exists /\ dotenv.vars = OneVar(TutorialName, k)

(***************************************************************************)
(* C23: API key: when .env holds the line the tutorial gives, OSRKEY=k,    *)
(* the value read from the environment and passed as key to the routing    *)
(* client is k.  Fails: the code reads the variable ORSKEY, which that     *)
(* line does not set.                                                      *)
(***************************************************************************)
C23_TutorialKeyPassed ==
  \A k \in Keys :
    (run \in {"route", "isochrone"} /\ TutorialEnv(k)
     /\ pc \notin {"dotenv", "getenv", "client"}) =>
      osrkey = Str(k) /\ ors.key = Str(k)

(***************************************************************************)
(* C24: batch isochrone output layout: the header line of the output is    *)
(* the columns of the input header in their order followed by geom, and    *)
(* every written row has one cell per header column and holds, under each  *)
(* input column, the cell of its input line unchanged.                     *)
(***************************************************************************)
C24_OutputLayout ==
  (run = "iso" /\ HeaderWritten) =>
    LET n == Len(infile.header)
    IN  /\ outcsv.lines[1].kind = "header"
        /\ outcsv.lines[1].cells =
             [i \in 1..(n + 1) |->
                IF i <= n THEN <<infile.header[i]>> ELSE <<"geom">>]
        /\ \A j \in DOMAIN outcsv.lines :
             outcsv.lines[j].kind = "row" =>
               /\ Len(outcsv.lines[j].cells) = n + 1
               /\ \A i \in 1..n :
                    outcsv.lines[j].cells[i] = infile.lines[outcsv.lines[j].rec][i]

C24_Witness ==
  /\ run = "iso" /\ pc = "done"
  /\ infile.header = <<"X", "Y", "STATION">>
  /\ Len(DataRows(outcsv)) = 2
  /\ RowOf(outcsv, 1).cells[3] = <<"Davis">>
  /\ RowOf(outcsv, 2).cells[1] = <<"-71.1">>

(***************************************************************************)
(* C25: termination: when a cell has ended on a listing whose blocks have  *)
(* every element the cell reads, or on an existing input CSV, it has       *)
(* visited every input record, each once (the loop counter equals the      *)
(* number of records).  Fails for the scraper: an exception raised while   *)
(* a record is processed is not caught there (failed download, failed      *)
(* detail fetch) and ends the cell with the later records unvisited.       *)
(***************************************************************************)
C25_EndsWithAllVisited ==
  Ended =>
    /\ (run = "iso" /\ infile.exists) => lineNo = Len(infile.lines)
    /\ (run = "scrape" /\ \A i \in DOMAIN people : people[i] \in ImgBlocks) =>
         idx = Len(people)

(***************************************************************************)
(* C26: scraper cell: between a network call of one record and a network   *)
(* call of a later record, time.sleep(1.5) of the earlier record has been  *)
(* executed; so the sleep lies between the last call of each record and    *)
(* the first call of the next.                                             *)
(***************************************************************************)
C26_SleepBetweenRecords ==
  run = "scrape" =>
    \A c, d \in NetworkCalls :
      trace[c].rec < trace[d].rec =>
        \E s \in EventsOf("sleep") :
          c < s /\ s < d /\ trace[s].rec = trace[c].rec

C26_Witness ==
  /\ run = "scrape" /\ pc = "done" /\ Len(people) = 3
  /\ RecordsWith("get", "ok") = {1, 2, 3}
  /\ RecordsWith("download", "ok") = {1, 3}
  /\ Cardinality(EventsOf("sleep")) = 3

(***************************************************************************)
(* C27: batch isochrone cell: when the request of a line has returned but  *)
(* the response cannot be converted to WKT (no feature, a geometry shapely *)
(* rejects) or the row cannot be written, the outcome is that of a failed  *)
(* request: the exception is caught and printed right away, no row is      *)
(* ever written for the line, and when the cell has finished a request     *)
(* has been sent for every later line.                                     *)
(***************************************************************************)
C27_UnconvertibleSkipped ==
  run = "iso" =>
    \A k \in EventsOf("raise") :
      /\ trace[k].arg[2] \in {"geom", "writerow"}
      /\ trace[k].res = "caught"
      /\ trace[k].rec \in RecordsWith("isochrones", "ok")
      /\ k + 1 \in DOMAIN trace
      /\ trace[k + 1].op = "print" /\ trace[k + 1].rec = trace[k].rec
      /\ ~HasRow(outcsv, trace[k].rec)
      /\ pc # "aborted"
      /\ pc = "done" =>
           \A j \in (trace[k].rec + 1)..Len(infile.lines) :
             \E m \in EventsOf("isochrones") : trace[m].rec = j

C27_Witness ==
  /\ run = "iso" /\ pc = "done" /\ Len(infile.lines) = 3
  /\ RaisedAt("geom") = {1}
  /\ RaisedAt("writerow") = {2}
  /\ RecordsWith("isochrones", "ok") = {1, 2, 3}
  /\ HasRow(outcsv, 3)

(***************************************************************************)
(* C28: batch isochrone cell: when the input CSV does not exist, no step   *)
(* of the cell changes the output file: it is neither created nor          *)
(* truncated, and what an earlier run left in it stays.                    *)
(***************************************************************************)
C28_MissingInputKeepsOutput ==
  [][(run = "iso" /\ ~infile.exists) => outcsv' = outcsv]_vars

C28_Witness ==
  /\ run = "iso" /\ ~infile.exists /\ pc = "done"
  /\ MissingReported
  /\ outcsv = OldOutput

\* This run has opened the output file, which an earlier run had left.
TruncatedOld ==
  \E k \in EventsOf("open") : trace[k].res = "truncated"
OpenedNow == EventsOf("open") # {}

\* The row the batch cell writes for line r, from the input line and the
\* response received for it.
IsoRowCells(r) ==
  DictRow(Append(infile.header, "geom"),
          WithGeom(DictReaderRow(infile.header, infile.lines[r]), ResponseOf(r)))

(***************************************************************************)
(* C29: re-running a cell: once a run has opened the output file, the      *)
(* file holds no line of an earlier run and its content is determined by   *)
(* this run alone: as many lines as this run has written, the header of    *)
(* this run first, and in the batch cell each row made of its input line   *)
(* and the response received for it.  So a run that starts on the output   *)
(* of an earlier run with the same inputs and remote outcomes ends with    *)
(* the file a single run produces.                                         *)
(***************************************************************************)
C29_OutputOfThisRunOnly ==
  OpenedNow =>
    /\ \A i \in DOMAIN Out.lines : Out.lines[i].rec >= 0
    /\ Len(Out.lines) = Cardinality(EventsOf("write"))
    /\ HeaderWritten =>
         /\ HeaderThenRows
         /\ Out.lines[1].cells =
              IF run = "iso"
                THEN [i \in DOMAIN field_names |-> <<field_names[i]>>]
                ELSE [i \in DOMAIN scr_field_names |-> <<scr_field_names[i]>>]
         /\ run = "iso" =>
              \A i \in DOMAIN WrittenRecs :
                Out.lines[i + 1].cells = IsoRowCells(WrittenRecs[i])
         /\ (run = "scrape" /\ pc = "sleep") =>
              Out.lines[Len(Out.lines)].cells = DictRow(scr_field_names, RowDict(ns))

C29_Witness ==
  /\ run = "iso" /\ pc = "done" /\ TruncatedOld
  /\ WrittenRecs = <<1, 3>>
  /\ Len(outcsv.lines) = 3

(***************************************************************************)
(* C30: scraper cell: two image downloads for records of different names   *)
(* are directed to different files.  Fails: names that differ only in      *)
(* letter case, in periods, or in a space against an underscore are        *)
(* mapped to the same filename.                                            *)
(***************************************************************************)
C30_DifferentNamesDifferentFiles ==
  run = "scrape" =>
    \A k, m \in EventsOf("download") :
      people[trace[k].rec].username # people[trace[m].rec].username =>
        trace[k].arg # trace[m].arg

====
